---- MODULE Spec2Model ----
(***************************************************************************)
(* Live-reload orchestration of Dinodeck (src/src/Dinodeck.cpp): the       *)
(* settings resource, the manifest store it cascades into, and the run     *)
(* state of the Game that ForceReload drives.                              *)
(*                                                                         *)
(* ForceReload is modelled step by step (its position is pc), because the  *)
(* files it reads belong to the file system, which other processes change  *)
(* between any two of its reads.  OnAssetReload and the manifest store's   *)
(* Reload are single steps.                                                *)
(***************************************************************************)
EXTENDS Integers, Sequences, FiniteSets, TLC

(***************************************************************************)
(* Bounds.                                                                 *)
(***************************************************************************)
\* The file system's clock: every change on disk takes the next tick, so at
\* most MaxClock - 1 changes happen after the initial state.
MaxClock == 3

\* Width of int / unsigned int in the model (the conversion at the call of
\* ResetRenderWindow(unsigned int, unsigned int) wraps modulo 2^IntBits).
IntBits == 16

RECURSIVE Pow2(_)
Pow2(n) == IF n = 0 THEN 1 ELSE 2 * Pow2(n - 1)

ToUnsigned(x) == x % Pow2(IntBits)

ToInt(u) == IF u >= Pow2(IntBits - 1) THEN u - Pow2(IntBits) ELSE u

(***************************************************************************)
(* Settings (src/src/Settings.h).                                          *)
(***************************************************************************)
DefaultSettings ==
    [ name          |-> "CGGameLoop",
      width         |-> 640,
      height        |-> 360,
      displayWidth  |-> 640,
      displayHeight |-> 360,
      manifestPath  |-> "manifest.lua",
      mainScript    |-> "main.lua",
      onUpdate      |-> "update()",
      webserver     |-> FALSE,
      orientation   |-> "portrait" ]

(***************************************************************************)
(* The file system.  A settings file is the set of keys it assigns: a      *)
(* function from the keys present to their values.                         *)
(***************************************************************************)
\* The one manifest file that can exist on disk; any other path is missing.
ManifestFile == "manifest.lua"

SettingsFiles ==
    { [manifest |-> "manifest.lua"],
      [width |-> 800, height |-> 480, manifest |-> "manifest.lua"],
      [name |-> "Game", width |-> 320, height |-> 240,
       display_width |-> 100, display_height |-> 500, manifest |-> "manifest.lua"],
      [width |-> -4, height |-> 7, display_width |-> -9, display_height |-> -1,
       manifest |-> "manifest.lua"],
      [display_width |-> 1280, display_height |-> 200, manifest |-> "manifest.lua"],
      [width |-> 1024, height |-> 768],
      [width |-> 800, height |-> 480, manifest |-> "other.lua"] }

\* The content recorded for a settings file that does not exist.
NoFile == [manifest |-> "manifest.lua"]

\* lastModified of a resource that was never loaded.
Never == 0

VARIABLES
    pc,            \* position of the one control thread in ForceReload
    clock,         \* the file system's clock
    lastWrite,     \* clock of the last write (create or modify) of any file
    sfExists,      \* settings.lua exists
    sfMtime,       \* its modification time
    sfParses,      \* Lua parses it
    sfContent,     \* the keys it assigns
    mfExists,      \* manifest.lua exists
    mfParses,      \* the manifest parses
    scriptMtime,   \* modification time of the script asset the manifest lists
    assetOk,       \* the script asset loads
    mSettings,     \* Dinodeck::mSettings
    mName,         \* Dinodeck::mName
    listener,      \* mScreenChangeListener is set
    settingsTime,  \* mSettingsFile's lastModified
    stampLocal,    \* ForceReload's local lastModified
    resetSuccess,  \* ForceReload's local resetSuccess
    store,         \* mManifestAssetStore
    game,          \* mGame: runState, isReady, reloadCount
    returned,      \* what the last ForceReload returned
    trace,         \* calls and diagnostics of the current ForceReload, in order
    loadedStamp,   \* sfMtime when the last successful OnReload read the file
    failClock,     \* clock when the last failed cascade step read the disk
    registry,      \* the asset owners registered with mManifestAssetStore
    lastCall       \* the entry point of Dinodeck called last

disk == <<clock, lastWrite, sfExists, sfMtime, sfParses, sfContent,
          mfExists, mfParses, scriptMtime, assetOk>>

prog == <<pc, mSettings, mName, listener, settingsTime, stampLocal, resetSuccess,
          store, game, returned, trace, loadedStamp, failClock, registry, lastCall>>

vars == <<pc, clock, lastWrite, sfExists, sfMtime, sfParses, sfContent,
          mfExists, mfParses, scriptMtime, assetOk,
          mSettings, mName, listener, settingsTime, stampLocal, resetSuccess,
          store, game, returned, trace, loadedStamp, failClock, registry, lastCall>>

(***************************************************************************)
(* Collaborators whose code is outside src/, modelled from the spec.       *)
(***************************************************************************)
\* DDFile::FileExists
FileExists(path) ==
    \/ path = "settings.lua" /\ sfExists
    \/ path = ManifestFile /\ mfExists

\* LuaState::GetString / GetInt / GetBoolean: the value of the key, or the
\* default when the file does not assign it.
LuaGet(file, key, default) == IF key \in DOMAIN file THEN file[key] ELSE default

\* AssetStore::IsOutOfDate: never loaded is out of date; a file that cannot
\* be stat'ed is not treated as unchanged; otherwise on-disk time > stored.
IsOutOfDate(stored, exists, mtime) ==
    \/ stored = Never
    \/ ~exists
    \/ mtime > stored

\* Game::Break
GameBreak(g) == [g EXCEPT !.runState = "Broken"]

\* Game::Reset
GameReset(g) == [g EXCEPT !.runState = "Running", !.isReady = TRUE]

\* Game::IsRunning
GameIsRunning(g) == g.runState = "Running"

\* ManifestAssetStore::Clear
StoreClear(st) ==
    [st EXCEPT !.loaded = FALSE, !.scriptTime = Never,
               !.texLoaded = FALSE, !.fontLoaded = FALSE]

\* ManifestAssetStore::SetAsNotLoaded: every asset of the category becomes
\* NotLoaded; the manifest and the timestamps are left alone.
SetAsNotLoaded(st, category) ==
    CASE category = "Texture" -> [st EXCEPT !.texLoaded = FALSE]
      [] category = "Font"    -> [st EXCEPT !.fontLoaded = FALSE]
      [] OTHER                -> st

\* The owners of the optional textures and fonts load what is not loaded;
\* they are processed whether or not another category fails.
LoadGpuAssets(st) == [st EXCEPT !.texLoaded = TRUE, !.fontLoaded = TRUE]

\* ManifestAssetStore::ReloadInternal against the disk: a manifest that is
\* missing or does not parse fails and leaves the store untouched; a script
\* already tracked and changed on disk is reloaded by its owner (the Game,
\* which counts the attempt); a script not yet tracked is loaded.
\* Result: <<ok, store, reload attempts>>.
StoreReloadInternal(st) ==
    IF ~FileExists(st.path) \/ ~mfParses THEN <<FALSE, st, 0>>
    ELSE LET g == LoadGpuAssets(st)
         IN  IF ~g.loaded
             THEN IF assetOk
                  THEN <<TRUE, [g EXCEPT !.loaded = TRUE, !.scriptTime = scriptMtime], 0>>
                  ELSE <<FALSE, g, 0>>
             ELSE IF scriptMtime > g.scriptTime
                  THEN IF assetOk
                       THEN <<TRUE, [g EXCEPT !.scriptTime = scriptMtime], 1>>
                       ELSE <<FALSE, g, 1>>
                  ELSE <<TRUE, g, 0>>

\* ManifestAssetStore::Reload(path)
StoreReloadPath(st, path) == StoreReloadInternal([st EXCEPT !.path = path])

\* ManifestAssetStore::Reload(): fails when no path was ever set.
StoreReload(st) ==
    IF st.path = "" THEN <<FALSE, st, 0>> ELSE StoreReloadInternal(st)

(***************************************************************************)
(* The asset-owner registry.                                               *)
(***************************************************************************)
\* ManifestAssetStore::RegisterAssetOwner: a category already registered is
\* a configuration error and the registry is left as it was; without the
\* Optional argument the category is required.
RegisterAssetOwner(reg, category, owner, optional) ==
    IF category \in DOMAIN reg
    THEN reg
    ELSE [c \in DOMAIN reg \cup {category} |->
            IF c = category THEN [owner |-> owner, optional |-> optional] ELSE reg[c]]

RECURSIVE RegisterFrom(_, _, _)
RegisterFrom(reg, calls, i) ==
    IF i > Len(calls) THEN reg
    ELSE RegisterFrom(RegisterAssetOwner(reg, calls[i][1], calls[i][2], calls[i][3]),
                      calls, i + 1)

\* The registrations applied in order to an empty registry.
RegisterAll(calls) == RegisterFrom(<<>>, calls, 1)

\* Mutant: the last registration repeats "sounds" instead of "soundstreams".
ConstructorRegistrations_SoundsTwice ==
    << <<"scripts", "mGame", FALSE>>,
       <<"textures", "mTextureManager", TRUE>>,
       <<"fonts", "mManifestAssetStore", TRUE>>,
       <<"sounds", "mDDAudio", TRUE>>,
       <<"sounds", "mDDAudio", TRUE>> >>

\* Lines 37-44: the calls of RegisterAssetOwner in the constructor, as
\* <<category, owner, optional>>.
ConstructorRegistrations ==
    << <<"scripts", "mGame", FALSE>>,
       <<"textures", "mTextureManager", TRUE>>,
       <<"fonts", "mManifestAssetStore", TRUE>>,
       <<"sounds", "mDDAudio", TRUE>>,
       <<"soundstreams", "mDDAudio", TRUE>> >>

(***************************************************************************)
(* Dinodeck::ReadInSettingsFile (lines 75-137).                            *)
(* Result: ok, the new mSettings, whether Clear() was called, the log.     *)
(***************************************************************************)
\* Mutant: the second test repeats the width test, so the height is not clamped.
ClampDisplay_WidthTwice(s) ==
    LET s1 == IF s.width > s.displayWidth
              THEN [s EXCEPT !.displayWidth = s.width] ELSE s
    IN  IF s1.width > s1.displayWidth
        THEN [s1 EXCEPT !.displayHeight = s1.height] ELSE s1

\* Lines 113-127: the display size is raised to the surface size.
ClampDisplay(s) ==
    LET s1 == IF s.width > s.displayWidth
              THEN [s EXCEPT !.displayWidth = s.width] ELSE s
    IN  IF s1.height > s1.displayHeight
        THEN [s1 EXCEPT !.displayHeight = s1.height] ELSE s1

\* Mutant: an omitted display size keeps the display size of the last load.
ReadValues_KeepDisplay(s, file) ==
    LET w == LuaGet(file, "width", s.width)
        h == LuaGet(file, "height", s.height)
    IN  [ name          |-> LuaGet(file, "name", s.name),
          width         |-> w,
          height        |-> h,
          displayWidth  |-> LuaGet(file, "display_width", s.displayWidth),
          displayHeight |-> LuaGet(file, "display_height", s.displayHeight),
          mainScript    |-> LuaGet(file, "main_script", "main.lua"),
          onUpdate      |-> LuaGet(file, "on_update", "update()"),
          manifestPath  |-> LuaGet(file, "manifest", ""),
          webserver     |-> LuaGet(file, "webserver", FALSE),
          orientation   |-> LuaGet(file, "orientation", "portrait") ]

\* Lines 100-109: each key, or its default.
ReadValues(s, file) ==
    LET w == LuaGet(file, "width", s.width)
        h == LuaGet(file, "height", s.height)
    IN  [ name          |-> LuaGet(file, "name", s.name),
          width         |-> w,
          height        |-> h,
          displayWidth  |-> LuaGet(file, "display_width", w),
          displayHeight |-> LuaGet(file, "display_height", h),
          mainScript    |-> LuaGet(file, "main_script", "main.lua"),
          onUpdate      |-> LuaGet(file, "on_update", "update()"),
          manifestPath  |-> LuaGet(file, "manifest", ""),
          webserver     |-> LuaGet(file, "webserver", FALSE),
          orientation   |-> LuaGet(file, "orientation", "portrait") ]

\* Mutant: a missing settings file is reported without clearing the store.
ReadInSettingsFile_NoClear(s) ==
    IF ~FileExists("settings.lua")
    THEN [ok |-> FALSE, settings |-> s, cleared |-> FALSE,
          log |-> <<"ReadInSettingsFile", "settings missing", "Clear">>]
    ELSE IF ~sfParses
    THEN [ok |-> FALSE, settings |-> s, cleared |-> FALSE,
          log |-> <<"ReadInSettingsFile", "parse failed">>]
    ELSE [ok |-> TRUE, settings |-> ClampDisplay(ReadValues(s, sfContent)),
          cleared |-> FALSE, log |-> <<"ReadInSettingsFile">>]

\* Mutant: a parse failure clears the store, as a missing file does.
ReadInSettingsFile_ClearOnParse(s) ==
    IF ~FileExists("settings.lua")
    THEN [ok |-> FALSE, settings |-> s, cleared |-> TRUE,
          log |-> <<"ReadInSettingsFile", "settings missing", "Clear">>]
    ELSE IF ~sfParses
    THEN [ok |-> FALSE, settings |-> s, cleared |-> TRUE,
          log |-> <<"ReadInSettingsFile", "parse failed">>]
    ELSE [ok |-> TRUE, settings |-> ClampDisplay(ReadValues(s, sfContent)),
          cleared |-> FALSE, log |-> <<"ReadInSettingsFile">>]

ReadInSettingsFile(s) ==
    IF ~FileExists("settings.lua")
    THEN [ok |-> FALSE, settings |-> s, cleared |-> TRUE,
          log |-> <<"ReadInSettingsFile", "settings missing", "Clear">>]
    ELSE IF ~sfParses
    THEN [ok |-> FALSE, settings |-> s, cleared |-> FALSE,
          log |-> <<"ReadInSettingsFile", "parse failed">>]
    ELSE [ok |-> TRUE, settings |-> ClampDisplay(ReadValues(s, sfContent)),
          cleared |-> FALSE, log |-> <<"ReadInSettingsFile">>]

\* Dinodeck::ResetRenderWindow (lines 390-396): the ints pass through
\* unsigned int parameters and are written back.
ResetRenderWindow(s) ==
    [s EXCEPT !.width = ToInt(ToUnsigned(s.width)),
              !.height = ToInt(ToUnsigned(s.height))]

(***************************************************************************)
(* Initial state: after Dinodeck::Dinodeck (lines 23-45).                  *)
(***************************************************************************)
Init ==
    /\ pc = "idle"
    /\ clock = 1
    /\ lastWrite = 1
    /\ sfExists \in BOOLEAN
    /\ sfMtime = 1
    /\ sfParses \in (IF sfExists THEN BOOLEAN ELSE {TRUE})
    /\ sfContent \in (IF sfExists THEN SettingsFiles ELSE {NoFile})
    /\ mfExists \in BOOLEAN
    /\ mfParses = TRUE
    /\ scriptMtime = 1
    /\ assetOk = TRUE
    /\ mSettings = DefaultSettings
    /\ mName = "Dinodeck"
    /\ listener = FALSE
    /\ settingsTime = Never
    /\ stampLocal = Never
    /\ resetSuccess = TRUE
    /\ store = [path |-> "", loaded |-> FALSE, scriptTime |-> Never,
                texLoaded |-> FALSE, fontLoaded |-> FALSE]
    /\ registry = RegisterAll(ConstructorRegistrations)
    /\ lastCall = "none"
    /\ game = [runState |-> "NotStarted", isReady |-> FALSE, reloadCount |-> 0]
    /\ returned = "none"
    /\ trace = <<>>
    /\ loadedStamp = Never
    /\ failClock = 0

(***************************************************************************)
(* The file system's steps: other processes write and remove files at any  *)
(* point of ForceReload.  A write gives the file the next clock value as   *)
(* its modification time.  The spec gives the stat of a missing file no    *)
(* value, so settings.lua is not removed between the successful read of    *)
(* OnReload and the stat of line 198.                                      *)
(***************************************************************************)
WriteSettings ==
    /\ clock < MaxClock
    /\ clock' = clock + 1
    /\ lastWrite' = clock + 1
    /\ sfExists' = TRUE
    /\ sfMtime' = clock + 1
    /\ sfParses' \in BOOLEAN
    /\ sfContent' \in (IF sfParses' THEN SettingsFiles ELSE {NoFile})
    /\ UNCHANGED <<mfExists, mfParses, scriptMtime, assetOk>>
    /\ UNCHANGED prog

DeleteSettings ==
    /\ clock < MaxClock
    /\ sfExists
    /\ pc # "readstamp"
    /\ clock' = clock + 1
    /\ sfExists' = FALSE
    /\ sfParses' = TRUE
    /\ sfContent' = NoFile
    /\ UNCHANGED <<lastWrite, sfMtime, mfExists, mfParses, scriptMtime, assetOk>>
    /\ UNCHANGED prog

WriteManifest ==
    /\ clock < MaxClock
    /\ clock' = clock + 1
    /\ lastWrite' = clock + 1
    /\ mfExists' = TRUE
    /\ mfParses' \in BOOLEAN
    /\ UNCHANGED <<sfExists, sfMtime, sfParses, sfContent, scriptMtime, assetOk>>
    /\ UNCHANGED prog

DeleteManifest ==
    /\ clock < MaxClock
    /\ mfExists
    /\ clock' = clock + 1
    /\ mfExists' = FALSE
    /\ mfParses' = TRUE
    /\ UNCHANGED <<lastWrite, sfExists, sfMtime, sfParses, sfContent, scriptMtime, assetOk>>
    /\ UNCHANGED prog

WriteScript ==
    /\ clock < MaxClock
    /\ clock' = clock + 1
    /\ lastWrite' = clock + 1
    /\ scriptMtime' = clock + 1
    /\ assetOk' \in BOOLEAN
    /\ UNCHANGED <<sfExists, sfMtime, sfParses, sfContent, mfExists, mfParses>>
    /\ UNCHANGED prog

(***************************************************************************)
(* The host sets the screen-change listener (the setter is declared in     *)
(* Dinodeck.h; the constructor leaves the pointer NULL, line 30).          *)
(***************************************************************************)
SetScreenChangeListener ==
    /\ pc = "idle"
    /\ ~listener
    /\ listener' = TRUE
    /\ UNCHANGED disk
    /\ UNCHANGED <<registry, lastCall>>
    /\ UNCHANGED <<pc, mSettings, mName, settingsTime, stampLocal, resetSuccess,
                   store, game, returned, trace, loadedStamp, failClock>>

(***************************************************************************)
(* Dinodeck::ForceReload (lines 181-229), one action per step.             *)
(***************************************************************************)
\* Mutant: ResetReloadCount is not called.
ForceReload_Begin_NoCountReset ==
    /\ pc = "idle"
    /\ pc' = "check"
    /\ game' = game
    /\ resetSuccess' = TRUE
    /\ returned' = "none"
    /\ trace' = <<"ResetReloadCount">>
    /\ lastCall' = "ForceReload"
    /\ UNCHANGED disk
    /\ UNCHANGED registry
    /\ UNCHANGED <<mSettings, mName, listener, settingsTime, stampLocal, store,
                   loadedStamp, failClock>>

\* Lines 183-186.
ForceReload_Begin ==
    /\ pc = "idle"
    /\ pc' = "check"
    /\ game' = [game EXCEPT !.reloadCount = 0]
    /\ resetSuccess' = TRUE
    /\ returned' = "none"
    /\ trace' = <<"ResetReloadCount">>
    /\ lastCall' = "ForceReload"
    /\ UNCHANGED disk
    /\ UNCHANGED registry
    /\ UNCHANGED <<mSettings, mName, listener, settingsTime, stampLocal, store,
                   loadedStamp, failClock>>

\* Mutant: the branches of line 191 are swapped.
ForceReload_Check_Swapped ==
    /\ pc = "check"
    /\ pc' = IF IsOutOfDate(settingsTime, sfExists, sfMtime) THEN "manifest" ELSE "onreload"
    /\ trace' = Append(trace, "IsOutOfDate")
    /\ UNCHANGED disk
    /\ UNCHANGED <<registry, lastCall>>
    /\ UNCHANGED <<mSettings, mName, listener, settingsTime, stampLocal, resetSuccess,
                   store, game, returned, loadedStamp, failClock>>

\* Line 191: the branch on AssetStore::IsOutOfDate(*mSettingsFile).
ForceReload_Check ==
    /\ pc = "check"
    /\ pc' = IF IsOutOfDate(settingsTime, sfExists, sfMtime) THEN "onreload" ELSE "manifest"
    /\ trace' = Append(trace, "IsOutOfDate")
    /\ UNCHANGED disk
    /\ UNCHANGED <<registry, lastCall>>
    /\ UNCHANGED <<mSettings, mName, listener, settingsTime, stampLocal, resetSuccess,
                   store, game, returned, loadedStamp, failClock>>

\* Mutant: the timestamp is updated whether or not OnReload succeeded.
AfterOnReload_AlwaysStamp(ok) == "readstamp"

\* Lines 195-201: the timestamp is updated only when OnReload succeeded.
AfterOnReload(ok) == IF ok THEN "readstamp" ELSE "decide"

\* Mutant: the listener is notified and the render window reset only after
\* Reload(path) has succeeded.
OnAssetReload_NotifyAfterReload ==
    /\ pc = "onreload"
    /\ LET r == ReadInSettingsFile(mSettings)
           s == r.settings
       IN  IF ~r.ok
           THEN \* lines 144-148
                /\ mSettings' = mSettings
                /\ mName' = mName
                /\ store' = IF r.cleared THEN StoreClear(store) ELSE store
                /\ game' = GameBreak(game)
                /\ resetSuccess' = FALSE
                /\ trace' = trace \o r.log \o <<"Break">>
           ELSE IF ~FileExists(s.manifestPath)
           THEN \* lines 150-157
                /\ mSettings' = s
                /\ mName' = s.name
                /\ store' = StoreClear(store)
                /\ game' = GameBreak(game)
                /\ resetSuccess' = FALSE
                /\ trace' = trace \o r.log \o
                            <<"FileExists", "manifest missing", "Clear", "Break">>
           ELSE \* lines 159-173
                LET s2  == ResetRenderWindow(s)
                    res == StoreReloadPath(store, s2.manifestPath)
                    g2  == [game EXCEPT !.reloadCount = @ + res[3]]
                IN  /\ mSettings' = s2
                    /\ mName' = s.name
                    /\ store' = res[2]
                    /\ game' = IF res[1] THEN g2 ELSE GameBreak(g2)
                    /\ resetSuccess' = res[1]
                    /\ trace' = trace \o r.log \o <<"FileExists", "Reload(path)">>
                                \o (IF res[3] > 0 THEN <<"script reload">> ELSE <<>>)
                                \o (IF res[1]
                                    THEN (IF listener THEN <<"OnChange">> ELSE <<>>)
                                         \o <<"ResetRenderWindow">>
                                    ELSE <<"Reload(path) failed", "Break">>)
    /\ pc' = AfterOnReload(resetSuccess')
    /\ loadedStamp' = IF resetSuccess' THEN sfMtime ELSE loadedStamp
    /\ failClock' = IF resetSuccess' THEN failClock ELSE clock
    /\ UNCHANGED disk
    /\ UNCHANGED <<registry, lastCall>>
    /\ UNCHANGED <<listener, settingsTime, stampLocal, returned>>

\* Line 193, mSettingsFile->OnReload(): the asset hands itself to its owner,
\* Dinodeck::OnAssetReload (lines 139-174).
OnAssetReload ==
    /\ pc = "onreload"
    /\ LET r == ReadInSettingsFile(mSettings)
           s == r.settings
       IN  IF ~r.ok
           THEN \* lines 144-148
                /\ mSettings' = mSettings
                /\ mName' = mName
                /\ store' = IF r.cleared THEN StoreClear(store) ELSE store
                /\ game' = GameBreak(game)
                /\ resetSuccess' = FALSE
                /\ trace' = trace \o r.log \o <<"Break">>
           ELSE IF ~FileExists(s.manifestPath)
           THEN \* lines 150-157
                /\ mSettings' = s
                /\ mName' = s.name
                /\ store' = StoreClear(store)
                /\ game' = GameBreak(game)
                /\ resetSuccess' = FALSE
                /\ trace' = trace \o r.log \o
                            <<"FileExists", "manifest missing", "Clear", "Break">>
           ELSE \* lines 159-173
                LET s2  == ResetRenderWindow(s)
                    res == StoreReloadPath(store, s2.manifestPath)
                    g2  == [game EXCEPT !.reloadCount = @ + res[3]]
                IN  /\ mSettings' = s2
                    /\ mName' = s.name
                    /\ store' = res[2]
                    /\ game' = IF res[1] THEN g2 ELSE GameBreak(g2)
                    /\ resetSuccess' = res[1]
                    /\ trace' = trace \o r.log \o <<"FileExists">>
                                \o (IF listener THEN <<"OnChange">> ELSE <<>>)
                                \o <<"ResetRenderWindow", "Reload(path)">>
                                \o (IF res[3] > 0 THEN <<"script reload">> ELSE <<>>)
                                \o (IF res[1] THEN <<>>
                                    ELSE <<"Reload(path) failed", "Break">>)
    /\ pc' = AfterOnReload(resetSuccess')
    /\ loadedStamp' = IF resetSuccess' THEN sfMtime ELSE loadedStamp
    /\ failClock' = IF resetSuccess' THEN failClock ELSE clock
    /\ UNCHANGED disk
    /\ UNCHANGED <<registry, lastCall>>
    /\ UNCHANGED <<listener, settingsTime, stampLocal, returned>>

\* Line 198: AssetStore::GetModifiedTimeStamp(*mSettingsFile).
ForceReload_ReadStamp ==
    /\ pc = "readstamp"
    /\ pc' = "storestamp"
    /\ stampLocal' = sfMtime
    /\ trace' = Append(trace, "GetModifiedTimeStamp")
    /\ UNCHANGED disk
    /\ UNCHANGED <<registry, lastCall>>
    /\ UNCHANGED <<mSettings, mName, listener, settingsTime, resetSuccess,
                   store, game, returned, loadedStamp, failClock>>

\* Lines 199-200: SetTimeLastModified (the frame buffer is not modelled).
ForceReload_StoreStamp ==
    /\ pc = "storestamp"
    /\ pc' = "decide"
    /\ settingsTime' = stampLocal
    /\ trace' = Append(trace, "SetTimeLastModified")
    /\ UNCHANGED disk
    /\ UNCHANGED <<registry, lastCall>>
    /\ UNCHANGED <<mSettings, mName, listener, stampLocal, resetSuccess,
                   store, game, returned, loadedStamp, failClock>>

\* Mutant: the timestamp update follows the manifest branch too.
ForceReload_ManifestReload_Stamps ==
    /\ pc = "manifest"
    /\ pc' = "decide"
    /\ LET res == StoreReload(store)
       IN  /\ store' = res[2]
           /\ game' = [game EXCEPT !.reloadCount = @ + res[3]]
           /\ resetSuccess' = res[1]
           /\ trace' = trace \o <<"Reload()">>
                       \o (IF res[3] > 0 THEN <<"script reload">> ELSE <<>>)
                       \o (IF res[1] THEN <<>> ELSE <<"Reload() failed">>)
           /\ failClock' = IF res[1] THEN failClock ELSE clock
    /\ settingsTime' = IF sfExists THEN sfMtime ELSE settingsTime
    /\ UNCHANGED disk
    /\ UNCHANGED <<registry, lastCall>>
    /\ UNCHANGED <<mSettings, mName, listener, stampLocal,
                   returned, loadedStamp>>

\* Line 207: mManifestAssetStore.Reload().
ForceReload_ManifestReload ==
    /\ pc = "manifest"
    /\ pc' = "decide"
    /\ LET res == StoreReload(store)
       IN  /\ store' = res[2]
           /\ game' = [game EXCEPT !.reloadCount = @ + res[3]]
           /\ resetSuccess' = res[1]
           /\ trace' = trace \o <<"Reload()">>
                       \o (IF res[3] > 0 THEN <<"script reload">> ELSE <<>>)
                       \o (IF res[1] THEN <<>> ELSE <<"Reload() failed">>)
           /\ failClock' = IF res[1] THEN failClock ELSE clock
    /\ UNCHANGED disk
    /\ UNCHANGED <<registry, lastCall>>
    /\ UNCHANGED <<mSettings, mName, listener, settingsTime, stampLocal,
                   returned, loadedStamp>>

\* Mutant: the test of Game::IsRunning is left out of line 217.
ShouldReset_NoRunningTest(g) == g.reloadCount > 0 \/ ~g.isReady

\* Mutant: every successful reload resets.
ShouldReset_Always(g) == TRUE

\* Lines 217-226: the condition under which Game::Reset is called.
ShouldReset(g) == g.reloadCount > 0 \/ ~GameIsRunning(g) \/ ~g.isReady

\* Mutant: the failure branch returns false without calling Game::Break.
ForceReload_Decide_NoBreak ==
    /\ pc = "decide"
    /\ pc' = "idle"
    /\ IF ~resetSuccess
       THEN /\ game' = game
            /\ returned' = "false"
            /\ trace' = trace \o <<"Reset failed">>
       ELSE /\ game' = IF ShouldReset(game) THEN GameReset(game) ELSE game
            /\ returned' = "true"
            /\ trace' = IF ShouldReset(game) THEN Append(trace, "Reset") ELSE trace
    /\ stampLocal' = Never
    /\ resetSuccess' = TRUE
    /\ UNCHANGED disk
    /\ UNCHANGED <<registry, lastCall>>
    /\ UNCHANGED <<mSettings, mName, listener, settingsTime, store,
                   loadedStamp, failClock>>

\* Lines 210-228.
ForceReload_Decide ==
    /\ pc = "decide"
    /\ pc' = "idle"
    /\ IF ~resetSuccess
       THEN /\ game' = GameBreak(game)
            /\ returned' = "false"
            /\ trace' = trace \o <<"Reset failed", "Break">>
       ELSE /\ game' = IF ShouldReset(game) THEN GameReset(game) ELSE game
            /\ returned' = "true"
            /\ trace' = IF ShouldReset(game) THEN Append(trace, "Reset") ELSE trace
    /\ stampLocal' = Never
    /\ resetSuccess' = TRUE
    /\ UNCHANGED disk
    /\ UNCHANGED <<registry, lastCall>>
    /\ UNCHANGED <<mSettings, mName, listener, settingsTime, store,
                   loadedStamp, failClock>>

\* Mutant: only the textures are demoted.
OpenGLContextReset_TexturesOnly ==
    /\ pc = "idle"
    /\ store' = SetAsNotLoaded(store, "Texture")
    /\ lastCall' = "OpenGLContextReset"
    /\ UNCHANGED disk
    /\ UNCHANGED <<pc, mSettings, mName, listener, settingsTime, stampLocal,
                   resetSuccess, game, returned, trace, loadedStamp, failClock,
                   registry>>

\* Dinodeck::OpenGLContextReset (lines 416-424), called by the host between
\* two ForceReload calls.  The system font of the Game and the frame buffer
\* are GPU objects outside the reload state and are not modelled.
OpenGLContextReset ==
    /\ pc = "idle"
    /\ store' = SetAsNotLoaded(SetAsNotLoaded(store, "Texture"), "Font")
    /\ lastCall' = "OpenGLContextReset"
    /\ UNCHANGED disk
    /\ UNCHANGED <<pc, mSettings, mName, listener, settingsTime, stampLocal,
                   resetSuccess, game, returned, trace, loadedStamp, failClock,
                   registry>>

Next ==
    \/ OpenGLContextReset
    \/ WriteSettings
    \/ DeleteSettings
    \/ WriteManifest
    \/ DeleteManifest
    \/ WriteScript
    \/ SetScreenChangeListener
    \/ ForceReload_Begin
    \/ ForceReload_Check
    \/ OnAssetReload
    \/ ForceReload_ReadStamp
    \/ ForceReload_StoreStamp
    \/ ForceReload_ManifestReload
    \/ ForceReload_Decide

Spec == Init /\ [][Next]_vars

(***************************************************************************)
(* Helpers for the properties.                                             *)
(***************************************************************************)
Has(seq, e) == \E i \in 1..Len(seq) : seq[i] = e

Count(seq, e) == Cardinality({i \in 1..Len(seq) : seq[i] = e})

TypeOK ==
    /\ pc \in {"idle", "check", "onreload", "readstamp", "storestamp", "manifest", "decide"}
    /\ clock \in 1..MaxClock
    /\ sfMtime \in 1..MaxClock
    /\ settingsTime \in 0..MaxClock
    /\ game.runState \in {"NotStarted", "Running", "Broken"}
    /\ game.reloadCount \in 0..1
    /\ returned \in {"none", "true", "false"}

(***************************************************************************)
(* Properties.                                                             *)
(***************************************************************************)
\* The diagnostics a failed cascade stage leaves in the trace.
FailureMarks ==
    {"settings missing", "parse failed", "manifest missing",
     "Reload(path) failed", "Reload() failed"}

CascadeFailed(t) == \E m \in FailureMarks : Has(t, m)

\* The steps of a cascade that a retry would repeat.
CascadeSteps == {"ReadInSettingsFile", "Reload(path)", "Reload()"}

\* C1: whenever a ForceReload whose cascade failed at any stage has returned,
\* it returned false, the application is Broken, and no step of the cascade
\* ran more than once in that call.
C1_FailedCascadeBreaks ==
    (pc = "idle" /\ CascadeFailed(trace)) =>
        /\ returned = "false"
        /\ game.runState = "Broken"
        /\ \A e \in CascadeSteps : Count(trace, e) <= 1
        /\ ~(Has(trace, "ReadInSettingsFile") /\ Has(trace, "Reload()"))

\* C1 witness: a ForceReload has returned after the no-argument Reload()
\* failed, the one stage that only ForceReload itself answers with Break.
C1_Witness ==
    /\ pc = "idle"
    /\ Has(trace, "Reload() failed")
    /\ returned = "false"
    /\ game.runState = "Broken"

\* A settings reload of the current call succeeded: Reload(path) ran and did
\* not fail.
SettingsReloadSucceeded(t) == Has(t, "Reload(path)") /\ ~Has(t, "Reload(path) failed")

\* A settings reload of the last call failed.
SettingsReloadFailed(t) ==
    Has(t, "ReadInSettingsFile") /\ ~SettingsReloadSucceeded(t)

C3_StalenessTracksDisk ==
    (pc = "idle" /\ settingsTime # Never /\ sfExists) =>
        (IsOutOfDate(settingsTime, sfExists, sfMtime) <=> sfMtime > loadedStamp)

\* C4: as long as no settings reload has succeeded, the settings resource has
\* no recorded timestamp and every ForceReload takes the settings-reload
\* branch: the no-argument Reload() of the other branch is never reached.
C4_NeverLoadedIsStale ==
    (loadedStamp = Never) =>
        /\ settingsTime = Never
        /\ pc # "manifest"
        /\ ~Has(trace, "Reload()")
        /\ (pc \in {"decide", "idle"} /\ trace # <<>>) => Has(trace, "ReadInSettingsFile")

\* C4 witness: a ForceReload has returned from a failed settings reload while
\* no settings reload has ever succeeded.
C4_Witness ==
    /\ pc = "idle"
    /\ loadedStamp = Never
    /\ Has(trace, "ReadInSettingsFile")
    /\ returned = "false"

\* C5: when a settings reload finds the settings file missing, or the manifest
\* path of a parsed settings file missing, Clear() is called, the store holds
\* no assets, neither Reload is called and the application is Broken.
C5_ConfigMissingClears ==
    (Has(trace, "settings missing") \/ Has(trace, "manifest missing")) =>
        /\ Has(trace, "Clear")
        /\ ~store.loaded
        /\ store.scriptTime = Never
        /\ ~Has(trace, "Reload(path)")
        /\ ~Has(trace, "Reload()")
        /\ game.runState = "Broken"

\* C5 witness: the manifest named by a parsed settings file was missing in a
\* reload of an application that had been running with assets loaded.
C5_Witness ==
    /\ pc = "idle"
    /\ Has(trace, "manifest missing")
    /\ game.isReady
    /\ store.path # ""

\* C6: from the step in which the settings file fails to parse until the call
\* has returned, the application is Broken and the store, the Settings, the
\* name and the settings timestamp keep their values; the store is neither
\* cleared nor reloaded and the listener is not notified.
C6_ParseFailureChangesNothing ==
    [][ (pc # "idle" /\ Has(trace', "parse failed")) =>
            /\ game'.runState = "Broken"
            /\ store' = store
            /\ mSettings' = mSettings
            /\ mName' = mName
            /\ settingsTime' = settingsTime
            /\ ~Has(trace', "Clear")
            /\ ~Has(trace', "Reload(path)")
            /\ ~Has(trace', "Reload()")
            /\ ~Has(trace', "OnChange")
            /\ ~Has(trace', "SetTimeLastModified")
      ]_vars

\* C6 witness: a parse failure in an application that had loaded settings and
\* assets before and has a listener.
C6_Witness ==
    /\ pc = "idle"
    /\ Has(trace, "parse failed")
    /\ store.loaded
    /\ listener
    /\ settingsTime # Never
    /\ mSettings # DefaultSettings

\* The step in which a successful ForceReload decides about the reset.
SuccessfulDecision == pc = "decide" /\ resetSuccess /\ pc' = "idle"

\* C7 as claimed: after a successful cascade Game::Reset is called exactly
\* when isReady is false or reloadCount > 0, and otherwise the Game is left
\* as it was.
C7_ResetIffFirstOrReloaded ==
    [][ SuccessfulDecision =>
            /\ Has(trace', "Reset") <=> (~game.isReady \/ game.reloadCount > 0)
            /\ ~Has(trace', "Reset") => game' = game
      ]_vars

\* C7 amended: after a successful cascade Game::Reset is called exactly when
\* isReady is false, reloadCount > 0 or the application is not running, and
\* otherwise the Game is left as it was.
C7_ResetIffFirstReloadedOrStopped ==
    [][ SuccessfulDecision =>
            /\ Has(trace', "Reset") <=>
                   (~game.isReady \/ game.reloadCount > 0 \/ ~GameIsRunning(game))
            /\ Has(trace', "Reset") => game' = GameReset(game)
            /\ ~Has(trace', "Reset") => game' = game
      ]_vars

\* C7 witness: a ForceReload through the manifest branch (so the settings,
\* and with them the application, had been loaded before) has reset the
\* application although no asset was reloaded.
C7_Witness ==
    /\ pc = "idle"
    /\ returned = "true"
    /\ Has(trace, "Reload()")
    /\ Has(trace, "Reset")
    /\ game.reloadCount = 0

\* C8: a successful ForceReload of a ready, running application in which no
\* asset was reloaded calls no reset and leaves the Game, the Settings and
\* the store as they were; the application stays Running.
C8_SteadyStateIsNoOp ==
    [][ (SuccessfulDecision /\ game.isReady /\ GameIsRunning(game)
           /\ game.reloadCount = 0) =>
            /\ ~Has(trace', "Reset")
            /\ game' = game
            /\ game'.runState = "Running"
            /\ mSettings' = mSettings
            /\ store' = store
            /\ returned' = "true"
      ]_vars

\* C8 witness: a ForceReload has returned true without a reset and the
\* application is Running.
C8_Witness ==
    /\ pc = "idle"
    /\ returned = "true"
    /\ ~Has(trace, "Reset")
    /\ game.runState = "Running"
    /\ game.isReady

\* C9: the application leaves Broken only in the deciding step of a
\* ForceReload, and only if a file was written on disk after the failed
\* cascade step read the disk.
C9_UnstuckOnlyByFileChange ==
    [][ (game.runState = "Broken" /\ game'.runState # "Broken") =>
            /\ SuccessfulDecision
            /\ lastWrite > failClock
      ]_vars

\* C9 witness: the application is Running again after a failed cascade.
C9_Witness ==
    /\ pc = "idle"
    /\ game.runState = "Running"
    /\ failClock > 0
    /\ lastWrite > failClock

\* The window is not smaller than the surface.
WindowCoversSurface(s) == s.displayWidth >= s.width /\ s.displayHeight >= s.height

\* C10: the window is never smaller than the surface, and a settings reload
\* sets width and height to what the file gives (or leaves them) and each
\* display dimension to what the file gives, or to the surface dimension
\* when that is greater.
C10_WindowNotSmallerThanSurface ==
    /\ WindowCoversSurface(mSettings)
    /\ [][ /\ WindowCoversSurface(mSettings')
           /\ (mSettings' # mSettings) =>
                LET w  == LuaGet(sfContent, "width", mSettings.width)
                    h  == LuaGet(sfContent, "height", mSettings.height)
                    dw == LuaGet(sfContent, "display_width", w)
                    dh == LuaGet(sfContent, "display_height", h)
                IN  /\ mSettings'.width = w
                    /\ mSettings'.height = h
                    /\ mSettings'.displayWidth = (IF w > dw THEN w ELSE dw)
                    /\ mSettings'.displayHeight = (IF h > dh THEN h ELSE dh)
         ]_vars

\* C10 witness: a settings file with display_width below width and
\* display_height above height was read: the width was clamped, the height
\* was not.
C10_Witness ==
    /\ mSettings.width = 320
    /\ mSettings.displayWidth = 320
    /\ mSettings.height = 240
    /\ mSettings.displayHeight = 500

\* The step in which ReadInSettingsFile reads the settings file successfully.
SettingsRead ==
    /\ pc = "onreload"
    /\ pc' # "onreload"
    /\ sfExists
    /\ sfParses

\* C11 as claimed: after a successful read of a settings file, each of name,
\* width and height that the file omits has its schema default.
C11_OmittedKeysGetSchemaDefaults ==
    [][ SettingsRead =>
            /\ ("name" \notin DOMAIN sfContent) => mSettings'.name = DefaultSettings.name
            /\ ("width" \notin DOMAIN sfContent) => mSettings'.width = DefaultSettings.width
            /\ ("height" \notin DOMAIN sfContent) => mSettings'.height = DefaultSettings.height
      ]_vars

\* C12: after a successful read of a settings file that omits display_width
\* and display_height, the display size is the surface size of that read,
\* and the surface size is what the file gives.
C12_DisplayDefaultsToSurface ==
    [][ (SettingsRead /\ "display_width" \notin DOMAIN sfContent
           /\ "display_height" \notin DOMAIN sfContent) =>
            /\ mSettings'.displayWidth = mSettings'.width
            /\ mSettings'.displayHeight = mSettings'.height
            /\ ("width" \in DOMAIN sfContent) => mSettings'.width = sfContent.width
            /\ ("height" \in DOMAIN sfContent) => mSettings'.height = sfContent.height
      ]_vars

\* C12 witness: the file with width 800 and height 480 and no display size
\* was read after a load that had set the display to 320x500 (the name "Game"
\* is left from that load).
C12_Witness ==
    /\ mSettings.name = "Game"
    /\ mSettings.width = 800
    /\ mSettings.height = 480
    /\ mSettings.displayWidth = 800
    /\ mSettings.displayHeight = 480

\* The four dimensions of the settings.
Sizes(st) == <<st.width, st.height, st.displayWidth, st.displayHeight>>

\* C13 as claimed: within a ForceReload the listener is notified at most
\* once, and the step that notifies it changes a dimension and belongs to a
\* settings reload that succeeds.
C13_OnChangeOncePerSizeChange ==
    [][ /\ Count(trace', "OnChange") <= 1
        /\ (Has(trace', "OnChange") /\ ~Has(trace, "OnChange")) =>
              /\ Sizes(mSettings') # Sizes(mSettings)
              /\ resetSuccess'
      ]_vars

\* C14: every ForceReload starts with ResetReloadCount, once, before the
\* staleness check and before any reload, and from then on the reload count
\* is the number of asset reloads attempted in that call.
C14_ReloadCountIsPerCall ==
    (trace # <<>>) =>
        /\ trace[1] = "ResetReloadCount"
        /\ Count(trace, "ResetReloadCount") = 1
        /\ game.reloadCount = Count(trace, "script reload")

\* C14 witness: a call in which a script was reloaded is about to decide,
\* and the count it will inspect is that one reload.
C14_Witness ==
    /\ pc = "decide"
    /\ game.reloadCount = 1
    /\ Has(trace, "script reload")
    /\ Has(trace, "Reload()")

\* C15: the manifest branch is taken exactly when the settings resource is
\* not out of date, and a call that took it has left the Settings, the name
\* and the settings timestamp as they were, and has neither read the
\* settings file, nor called Clear(), nor notified the listener.
C15_ManifestBranchLeavesSettings ==
    [][ /\ (pc = "check" /\ pc' # "check") =>
              (pc' = "manifest" <=> ~IsOutOfDate(settingsTime, sfExists, sfMtime))
        /\ (pc' = "manifest" \/ Has(trace', "Reload()")) =>
              /\ mSettings' = mSettings
              /\ mName' = mName
              /\ settingsTime' = settingsTime
              /\ ~Has(trace', "ReadInSettingsFile")
              /\ ~Has(trace', "SetTimeLastModified")
              /\ ~Has(trace', "Clear")
              /\ ~Has(trace', "OnChange")
              /\ ~Has(trace', "Reload(path)")
      ]_vars

\* C15 witness: a call with a listener set has returned true through the
\* manifest branch, with settings that an earlier load had changed.
C15_Witness ==
    /\ pc = "idle"
    /\ returned = "true"
    /\ Has(trace, "Reload()")
    /\ listener
    /\ mSettings # DefaultSettings

\* The registry the constructor is claimed to build.
ClaimedRegistry ==
    [c \in {"scripts", "textures", "fonts", "sounds", "soundstreams"} |->
        CASE c = "scripts"  -> [owner |-> "mGame", optional |-> FALSE]
          [] c = "textures" -> [owner |-> "mTextureManager", optional |-> TRUE]
          [] c = "fonts"    -> [owner |-> "mManifestAssetStore", optional |-> TRUE]
          [] OTHER          -> [owner |-> "mDDAudio", optional |-> TRUE]]

\* C16: in every state the registry holds exactly scripts, textures, fonts,
\* sounds and soundstreams, one owner each, scripts alone required, and each
\* of the five registrations of the constructor added a category.
C16_RegistryIsFixed ==
    /\ registry = ClaimedRegistry
    /\ Cardinality(DOMAIN registry) = Len(ConstructorRegistrations)
    /\ {c \in DOMAIN registry : ~registry[c].optional} = {"scripts"}

\* C16 witness: the registry after a successful reload, a context reset and
\* a failed reload.
C16_Witness ==
    /\ pc = "idle"
    /\ lastCall = "OpenGLContextReset"
    /\ game.runState = "Broken"
    /\ game.isReady
    /\ Cardinality(DOMAIN registry) = 5

\* C17: after OpenGLContextReset no texture and no font is loaded, and the
\* step itself leaves the manifest path, the tracked script and its
\* timestamp, the settings timestamp, the Settings and the Game as they were.
C17_ContextResetDemotesOnlyGpuAssets ==
    /\ [][ (lastCall' = "OpenGLContextReset" /\ pc' = "idle" /\ pc = "idle"
              /\ (lastCall # lastCall' \/ store' # store)) =>
              /\ ~store'.texLoaded
              /\ ~store'.fontLoaded
              /\ store'.path = store.path
              /\ store'.loaded = store.loaded
              /\ store'.scriptTime = store.scriptTime
              /\ settingsTime' = settingsTime
              /\ mSettings' = mSettings
              /\ mName' = mName
              /\ game' = game
              /\ registry' = registry
         ]_vars
    /\ [][ (lastCall' = "OpenGLContextReset") =>
              (~store'.texLoaded /\ ~store'.fontLoaded) ]_vars

\* C17 witness: the context was lost while the application was Running with
\* its script loaded; the script is still loaded, the textures and fonts are
\* not.
C17_Witness ==
    /\ lastCall = "OpenGLContextReset"
    /\ game.runState = "Running"
    /\ store.loaded
    /\ store.scriptTime # Never
    /\ ~store.texLoaded
    /\ ~store.fontLoaded
    /\ settingsTime # Never

\* C18: whenever the manifest branch is taken or Reload() has run, a settings
\* reload (and with it Reload(path)) has succeeded before and the store has
\* its manifest path.
C18_ReloadHasPath ==
    (pc = "manifest" \/ Has(trace, "Reload()")) =>
        /\ loadedStamp # Never
        /\ settingsTime # Never
        /\ store.path # ""

\* C18 witness: Reload() ran and failed, with the manifest path set.
C18_Witness ==
    /\ pc = "decide"
    /\ Has(trace, "Reload() failed")
    /\ store.path = ManifestFile

\* Every a in t comes before every b in t.
Precedes(t, a, b) ==
    \A i, j \in 1..Len(t) : (t[i] = a /\ t[j] = b) => i < j

\* C19: in a settings reload the settings are read first, then the manifest
\* file is looked up, then the listener is notified, then the render window
\* is reset, then Reload(path) is called; the notification and the reset
\* happen only when the settings parsed and the manifest exists, and they
\* have happened when Reload(path) fails.
C19_SettingsReloadOrder ==
    /\ Precedes(trace, "ReadInSettingsFile", "FileExists")
    /\ Precedes(trace, "FileExists", "OnChange")
    /\ Precedes(trace, "FileExists", "ResetRenderWindow")
    /\ Precedes(trace, "OnChange", "ResetRenderWindow")
    /\ Precedes(trace, "ResetRenderWindow", "Reload(path)")
    /\ Precedes(trace, "OnChange", "Reload(path)")
    /\ (Has(trace, "OnChange") \/ Has(trace, "ResetRenderWindow")) =>
          /\ Has(trace, "ReadInSettingsFile")
          /\ Has(trace, "FileExists")
          /\ ~Has(trace, "settings missing")
          /\ ~Has(trace, "parse failed")
          /\ ~Has(trace, "manifest missing")
    /\ Has(trace, "Reload(path)") =>
          /\ Has(trace, "ResetRenderWindow")
          /\ (listener /\ pc # "idle") => Has(trace, "OnChange")

\* C19 witness: Reload(path) failed with a listener set; the listener had
\* been notified and the window reset.
C19_Witness ==
    /\ pc = "decide"
    /\ listener
    /\ Has(trace, "Reload(path) failed")
    /\ Has(trace, "OnChange")
    /\ Has(trace, "ResetRenderWindow")

\* C20: a successful ForceReload that finds the application not running
\* resets it to Running and ready, whatever isReady and reloadCount are, and
\* a failed ForceReload changes nothing of the Game but its run state.
C20_RecoveryAlwaysResets ==
    [][ /\ (SuccessfulDecision /\ ~GameIsRunning(game)) =>
              /\ Has(trace', "Reset")
              /\ game'.runState = "Running"
              /\ game'.isReady
              /\ returned' = "true"
        /\ (pc = "decide" /\ ~resetSuccess /\ pc' = "idle") =>
              game' = [game EXCEPT !.runState = "Broken"]
      ]_vars

\* C20 witness: after a failed cascade, a ForceReload that reloaded no asset
\* has brought the ready application back to Running through a reset.
C20_Witness ==
    /\ pc = "idle"
    /\ returned = "true"
    /\ failClock > 0
    /\ Has(trace, "Reload()")
    /\ Has(trace, "Reset")
    /\ game.reloadCount = 0
    /\ game.runState = "Running"

====
